---- MODULE Spec2Model ----
(***************************************************************************)
(* Adversarial search on the toy Isolation board: the GameState of         *)
(* "multiagent environments/solution.py" and the searchers of              *)
(* search/my_custom_player.py (alpha-beta minimax, Monte-Carlo tree        *)
(* search).                                                                *)
(***************************************************************************)
EXTENDS Integers, Sequences, FiniteSets, TLC

\* ------------------------------------------------------------------------
\* Bounds of the model
\* ------------------------------------------------------------------------
MaxDepth == 4
MaxQueue == 1
MaxIterations == 3
MaxTime == 2
MaxBudget == 2
MaxHeap == 4

\* ------------------------------------------------------------------------
\* Program constants
\* ------------------------------------------------------------------------
X_DIM == 3
Y_DIM == 2
DIRECTIONS ==
    << <<1, 0>>, <<1, -1>>, <<0, -1>>, <<-1, -1>>,
       <<-1, 0>>, <<-1, 1>>, <<0, 1>>, <<1, 1>> >>
SEARCH_DEPTH == 5
\* float("inf"): larger than every heuristic score of the board
Infinity == 1000
\* Python's None
None == <<>>

Max(a, b) == IF a >= b THEN a ELSE b
Min(a, b) == IF a <= b THEN a ELSE b

\* ------------------------------------------------------------------------
\* GameState (values)
\* ------------------------------------------------------------------------
\* GameState.__init__: board [[0, 0], [0, 0], [0, 1]], nobody placed
InitialBoard ==
    [x \in 0..(X_DIM - 1) |->
        [y \in 0..(Y_DIM - 1) |-> IF x = 2 /\ y = 1 THEN 1 ELSE 0]]

NewGameState ==
    [board |-> InitialBoard,
     active_players_index |-> 0,
     player_locations |-> [p \in {0, 1} |-> None]]

\* [(x, y) for x in range(X_DIM) for y in range(Y_DIM)]
RECURSIVE CellsFrom(_, _)
CellsFrom(x, y) ==
    IF x >= X_DIM THEN <<>>
    ELSE IF y >= Y_DIM THEN CellsFrom(x + 1, 0)
    ELSE << <<x, y>> >> \o CellsFrom(x, y + 1)

AllCells == CellsFrom(0, 0)

\* the inner while loop of liberties for one direction
RECURSIVE Ray(_, _, _, _, _)
Ray(board, current_x, current_y, dx, dy) ==
    IF 0 <= current_x + dx /\ current_x + dx < X_DIM
       /\ 0 <= current_y + dy /\ current_y + dy < Y_DIM
    THEN IF board[current_x + dx][current_y + dy] # 0
         THEN <<>>
         ELSE << <<current_x + dx, current_y + dy>> >>
              \o Ray(board, current_x + dx, current_y + dy, dx, dy)
    ELSE <<>>

RECURSIVE RaysFrom(_, _, _)
RaysFrom(board, loc, d) ==
    IF d > Len(DIRECTIONS) THEN <<>>
    ELSE Ray(board, loc[1], loc[2], DIRECTIONS[d][1], DIRECTIONS[d][2])
         \o RaysFrom(board, loc, d + 1)

liberties(s, loc) ==
    IF loc = None
    THEN SelectSeq(AllCells, LAMBDA c : s.board[c[1]][c[2]] = 0)
    ELSE RaysFrom(s.board, loc, 1)

actions(s) == liberties(s, s.player_locations[s.active_players_index])

player(s) == s.active_players_index

InSeq(e, sq) == \E k \in 1..Len(sq) : sq[k] = e

\* the value of a failed call (the assert of result)
IllegalAction == "AssertionError"

\* result that moves the player without blocking the cell moved to
resultLeavesCellOpen(s, action) ==
    IF ~InSeq(action, actions(s))
    THEN IllegalAction
    ELSE [board |-> s.board,
          player_locations |->
              [s.player_locations EXCEPT ![s.active_players_index] = action],
          active_players_index |->
              IF s.active_players_index = 0 THEN 1 ELSE 0]

result(s, action) ==
    IF ~InSeq(action, actions(s))
    THEN IllegalAction
    ELSE [board |-> [s.board EXCEPT ![action[1]][action[2]] = 1],
          player_locations |->
              [s.player_locations EXCEPT ![s.active_players_index] = action],
          active_players_index |->
              IF s.active_players_index = 0 THEN 1 ELSE 0]

terminal_test(s) ==
    \/ liberties(s, s.player_locations[0]) = <<>>
    \/ liberties(s, s.player_locations[1]) = <<>>

\* the ply counter: one cell is blocked by every move made
ply_count(s) ==
    Cardinality({k \in 1..Len(AllCells) :
                    s.board[AllCells[k][1]][AllCells[k][2]] # 0})
    - Cardinality({k \in 1..Len(AllCells) :
                    InitialBoard[AllCells[k][1]][AllCells[k][2]] # 0})

\* the player who cannot move loses; the active player when neither can
utility(s, playerId) ==
    IF ~terminal_test(s) THEN 0
    ELSE IF (actions(s) # <<>>) = (playerId = player(s))
         THEN Infinity
         ELSE -Infinity

\* ------------------------------------------------------------------------
\* GameState (objects): references to a board and a list of locations
\* ------------------------------------------------------------------------
\* the heap after GameState()
NewHeap ==
    [objs |-> <<[board |-> 1, player_locations |-> 1,
                 active_players_index |-> 0]>>,
     boards |-> <<InitialBoard>>,
     lists |-> <<[p \in {0, 1} |-> None]>>]

\* the value of the i-th GameState object
StateAt(h, i) ==
    [board |-> h.boards[h.objs[i].board],
     player_locations |-> h.lists[h.objs[i].player_locations],
     active_players_index |-> h.objs[i].active_players_index]

\* copy.copy(self): a new object that refers to the board and the list of
\* locations of self
shallowcopy(h, i) == [h EXCEPT !.objs = Append(@, h.objs[i])]

\* deepcopy(self): a new object, the last one, with a board and a list of
\* locations of its own
deepcopy(h, i) ==
    [objs |-> Append(h.objs,
                     [board |-> Len(h.boards) + 1,
                      player_locations |-> Len(h.lists) + 1,
                      active_players_index |->
                          h.objs[i].active_players_index]),
     boards |-> Append(h.boards, h.boards[h.objs[i].board]),
     lists |-> Append(h.lists, h.lists[h.objs[i].player_locations])]

\* result that copies self with copy.copy
ResultOnShallowCopy(h, i, action) ==
    LET copied == shallowcopy(h, i)
        nextGameState == Len(copied.objs)
        b == copied.objs[nextGameState].board
        l == copied.objs[nextGameState].player_locations
        marked == [copied EXCEPT !.boards[b][action[1]][action[2]] = 1]
        moved == [marked EXCEPT
                    !.lists[l][marked.objs[i].active_players_index] = action]
    IN [moved EXCEPT !.objs[nextGameState].active_players_index =
            IF moved.objs[i].active_players_index = 0 THEN 1 ELSE 0]

\* self.result(action) with self the i-th object, past the assert: the
\* heap after the call, the returned object the last one
ResultOnHeap(h, i, action) ==
    LET copied == deepcopy(h, i)
        nextGameState == Len(copied.objs)
        b == copied.objs[nextGameState].board
        l == copied.objs[nextGameState].player_locations
        marked == [copied EXCEPT !.boards[b][action[1]][action[2]] = 1]
        moved == [marked EXCEPT
                    !.lists[l][marked.objs[i].active_players_index] = action]
    IN [moved EXCEPT !.objs[nextGameState].active_players_index =
            IF moved.objs[i].active_players_index = 0 THEN 1 ELSE 0]

\* ------------------------------------------------------------------------
\* Evaluation heuristic
\* ------------------------------------------------------------------------
\* state.locs and state.liberties of the searched game are player_locations
\* and liberties of GameState
diff_liberties(s, player_id) ==
    Len(liberties(s, s.player_locations[player_id]))
    - Len(liberties(s, s.player_locations[1 - player_id]))

score(s, player_id) == diff_liberties(s, player_id)

\* ------------------------------------------------------------------------
\* Alpha-beta minimax
\* ------------------------------------------------------------------------
RECURSIVE min_value(_, _, _, _, _)
RECURSIVE max_value(_, _, _, _, _)
RECURSIVE MinLoop(_, _, _, _, _, _, _)
RECURSIVE MaxLoop(_, _, _, _, _, _, _)

\* MinLoop with the cutoff tested against beta instead of alpha
MinLoopCutOnBeta(s, k, v, alpha, beta, d, player_id) ==
    IF k > Len(actions(s)) THEN v
    ELSE LET w == Min(v, max_value(result(s, actions(s)[k]),
                                   alpha, beta, d - 1, player_id))
         IN IF w <= beta THEN w
            ELSE MinLoop(s, k + 1, w, alpha, Min(beta, w), d, player_id)

\* the for loop of min_value from the k-th action on, v the running minimum
MinLoop(s, k, v, alpha, beta, d, player_id) ==
    IF k > Len(actions(s)) THEN v
    ELSE LET w == Min(v, max_value(result(s, actions(s)[k]),
                                   alpha, beta, d - 1, player_id))
         IN IF w <= alpha THEN w
            ELSE MinLoop(s, k + 1, w, alpha, Min(beta, w), d, player_id)

min_value(s, alpha, beta, d, player_id) ==
    IF terminal_test(s) THEN utility(s, player_id)
    ELSE IF d <= 0 THEN score(s, player_id)
    ELSE MinLoop(s, 1, Infinity, alpha, beta, d, player_id)

\* the for loop of max_value from the k-th action on, v the running maximum
MaxLoop(s, k, v, alpha, beta, d, player_id) ==
    IF k > Len(actions(s)) THEN v
    ELSE LET w == Max(v, min_value(result(s, actions(s)[k]),
                                   alpha, beta, d - 1, player_id))
         IN IF w >= beta THEN w
            ELSE MaxLoop(s, k + 1, w, Max(alpha, w), beta, d, player_id)

max_value(s, alpha, beta, d, player_id) ==
    IF terminal_test(s) THEN utility(s, player_id)
    ELSE IF d <= 0 THEN score(s, player_id)
    ELSE MaxLoop(s, 1, -Infinity, alpha, beta, d, player_id)

\* RootIteration with >= for >: a later action of equal value replaces
\* the incumbent
RootIterationLastTieWins(acc, game_state, a, d, player_id) ==
    LET v == min_value(result(game_state, a), acc.alpha, Infinity,
                       d - 1, player_id)
    IN IF v >= acc.best_score
       THEN [alpha |-> Max(acc.alpha, v), best_score |-> v, best_move |-> a]
       ELSE IF acc.best_move = None
       THEN [alpha |-> Max(acc.alpha, v), best_score |-> v, best_move |-> a]
       ELSE [acc EXCEPT !.alpha = Max(acc.alpha, v)]

\* RootIteration with v compared to the alpha it has just raised instead of
\* best_score: only the elif branch ever takes an action
RootIterationComparesAlpha(acc, game_state, a, d, player_id) ==
    LET v == min_value(result(game_state, a), acc.alpha, Infinity,
                       d - 1, player_id)
    IN IF v > Max(acc.alpha, v)
       THEN [alpha |-> Max(acc.alpha, v), best_score |-> v, best_move |-> a]
       ELSE IF acc.best_move = None
       THEN [alpha |-> Max(acc.alpha, v), best_score |-> v, best_move |-> a]
       ELSE [acc EXCEPT !.alpha = Max(acc.alpha, v)]

\* RootBranch with >= for >: the elif is never needed
RootBranchGe(acc, v) ==
    IF v >= acc.best_score THEN "if"
    ELSE IF acc.best_move = None THEN "elif"
    ELSE "neither"

\* the branch of the if statement of the root loop that is executed for the
\* value v of an action
RootBranch(acc, v) ==
    IF v > acc.best_score THEN "if"
    ELSE IF acc.best_move = None THEN "elif"
    ELSE "neither"

\* one pass of the root loop of alpha_beta_search for action a;
\* acc holds the locals alpha, best_score and best_move
RootIteration(acc, game_state, a, d, player_id) ==
    LET v == min_value(result(game_state, a), acc.alpha, Infinity,
                       d - 1, player_id)
    IN IF RootBranch(acc, v) \in {"if", "elif"}
       THEN [alpha |-> Max(acc.alpha, v), best_score |-> v, best_move |-> a]
       ELSE [acc EXCEPT !.alpha = Max(acc.alpha, v)]

RootLocals ==
    [alpha |-> -Infinity, best_score |-> -Infinity, best_move |-> None]

\* the root loop of alpha_beta_search over the actions k..upto
RECURSIVE RootLoop(_, _, _, _, _, _)
RootLoop(acc, game_state, k, upto, d, player_id) ==
    IF k > upto THEN acc
    ELSE RootLoop(RootIteration(acc, game_state, actions(game_state)[k],
                                d, player_id),
                  game_state, k + 1, upto, d, player_id)

alpha_beta_search(game_state, d, player_id) ==
    RootLoop(RootLocals, game_state, 1, Len(actions(game_state)),
             d, player_id).best_move

\* ------------------------------------------------------------------------
\* Monte-Carlo tree search: the Node class
\* ------------------------------------------------------------------------
\* _EXPLORATION_WEIGHT = 1.7, times ten
EXPLORATION_WEIGHT_X10 == 17
\* _SEARCH_TIME_WITH_SAFETY = 0.5, as the divisor 1 / 0.5
SAFETY_DIVISOR == 2

\* the tree is an arena of nodes, the root at index 1; parentNode 0 is None
Node(gameState, action, parent) ==
    [action |-> action,
     parentNode |-> parent,
     gameState |-> gameState,
     childNodes |-> <<>>,
     qValue |-> 0,
     numberOfVisits |-> 0,
     openActions |-> actions(gameState)]

is_fully_expanded(node) == Len(node.openActions) = 0

non_terminal(gs) == ~terminal_test(gs)

\* list.remove of the m-th element (the elements of openActions differ)
RemoveAt(sq, m) == [j \in 1..(Len(sq) - 1) |-> IF j < m THEN sq[j] ELSE sq[j + 1]]

\* expand that leaves the chosen action in openActions
expandKeepsAction(tree, n, m) ==
    LET move == tree[n].openActions[m]
        child_node == Node(result(tree[n].gameState, move), move, n)
    IN Append([tree EXCEPT ![n].childNodes = Append(@, Len(tree) + 1)],
              child_node)

\* expand of node n when random.choice picks the m-th open action: the
\* tree after it; the child is its last node
expand(tree, n, m) ==
    LET move == tree[n].openActions[m]
        child_node == Node(result(tree[n].gameState, move), move, n)
    IN Append([tree EXCEPT ![n].openActions = RemoveAt(@, m),
                           ![n].childNodes = Append(@, Len(tree) + 1)],
              child_node)

\* round(1000 * ln(N)) for N = 1..12
Ln1000 == <<0, 693, 1099, 1386, 1609, 1792, 1946, 2079, 2197, 2303, 2398, 2485>>

RECURSIVE IsqrtBetween(_, _, _)
IsqrtBetween(x, lo, hi) ==
    IF lo >= hi THEN lo
    ELSE LET mid == (lo + hi + 1) \div 2
         IN IF mid * mid <= x THEN IsqrtBetween(x, mid, hi)
            ELSE IsqrtBetween(x, lo, mid - 1)

\* math.sqrt, rounded down (of an x below 30000 * 30000)
Isqrt(x) == IsqrtBetween(x, 0, Min(x, 30000))

\* 1000 times the uct of best_child, rounded: each of the two terms is off
\* by less than 3
Uct1000(child, parent) ==
    (child.qValue * 1000) \div child.numberOfVisits
    + Isqrt((EXPLORATION_WEIGHT_X10 * EXPLORATION_WEIGHT_X10 * 2
             * Ln1000[parent.numberOfVisits] * 10)
            \div child.numberOfVisits)

\* best_child of node n raises: a division by zero visits of a child, or the
\* logarithm of zero visits of the node
BestChildError(tree, n) ==
    IF \E j \in 1..Len(tree[n].childNodes) :
          tree[tree[n].childNodes[j]].numberOfVisits = 0
    THEN "ZeroDivisionError"
    ELSE IF tree[n].childNodes # <<>> /\ tree[n].numberOfVisits = 0
    THEN "ValueError"
    ELSE "none"

\* the nodes best_child of node n can return (0 is None): a child of
\* maximal uct, the first of those with the same statistics; children whose
\* rounded ucts are closer than the rounding error are all possible
BestChildren(tree, n) ==
    LET ch == tree[n].childNodes
        u(j) == Uct1000(tree[ch[j]], tree[n])
        same(i, j) ==
            /\ tree[ch[i]].qValue = tree[ch[j]].qValue
            /\ tree[ch[i]].numberOfVisits = tree[ch[j]].numberOfVisits
    IN IF ch = <<>> THEN {0}
       ELSE {ch[j] : j \in {i \in 1..Len(ch) :
                /\ \A o \in 1..Len(ch) : u(i) + 6 >= u(o)
                /\ \A o \in 1..(i - 1) : ~same(o, i)}}

is_a_win(gs) == utility(gs, 1 - player(gs)) = Infinity

is_a_loss(gs) == utility(gs, 1 - player(gs)) = -Infinity

\* Node.result returning the utility itself instead of +1 and -1
NodeResultIsUtility(gs) == utility(gs, 1 - player(gs))

\* Node.result: what rollout returns for the final state of the playout
NodeResult(gs) ==
    IF is_a_win(gs) THEN 1
    ELSE IF is_a_loss(gs) THEN -1
    ELSE 0

RECURSIVE backpropagate(_, _, _)

\* backpropagate that updates the node and does not go on to the parent
backpropagateNoParent(tree, n, res) ==
    [tree EXCEPT ![n].numberOfVisits = @ + 1, ![n].qValue = @ + res]

\* backpropagate that passes the result to the parent before counting the
\* visit, so that a node without parent only is counted
backpropagateCountsRootOnly(tree, n, res) ==
    IF tree[n].parentNode # 0
    THEN backpropagate(tree, tree[n].parentNode, -res)
    ELSE [tree EXCEPT ![n].numberOfVisits = @ + 1, ![n].qValue = @ + res]

\* backpropagate that hands the result to the parent without negating it
backpropagateNoNegation(tree, n, res) ==
    LET updated == [tree EXCEPT ![n].numberOfVisits = @ + 1,
                                ![n].qValue = @ + res]
    IN IF tree[n].parentNode # 0
       THEN backpropagate(updated, tree[n].parentNode, res)
       ELSE updated

\* backpropagate called on node n
backpropagate(tree, n, res) ==
    LET updated == [tree EXCEPT ![n].numberOfVisits = @ + 1,
                                ![n].qValue = @ + res]
    IN IF tree[n].parentNode # 0
       THEN backpropagate(updated, tree[n].parentNode, -res)
       ELSE updated

\* ------------------------------------------------------------------------
\* State
\* ------------------------------------------------------------------------
VARIABLES
    state,          \* the GameState the caller holds
    player_id,      \* the agent's player id
    pc,             \* position of the agent: idle, root_loop, done
    game_state,     \* the argument of the running alpha_beta_search
    depth,          \* its depth argument
    k,              \* index of the next root action of the for loop
    locals,         \* alpha, best_score, best_move of alpha_beta_search
    via,            \* who called the search: get_action or direct
    branch,         \* the branch the last pass of the root loop executed
    queue,          \* self.queue, oldest first
    nodes,          \* the tree of monte_carlo_tree_search, root first
    mpc,            \* position of monte_carlo_tree_search
    now,            \* time.time(), in milliseconds
    start_time,     \* local of monte_carlo_tree_search
    search_time,    \* local of monte_carlo_tree_search, after the safety
    iterations,     \* completed passes of the while loop
    node_to_process,    \* local of traverse
    leaf_node,          \* local of monte_carlo_tree_search
    current_game_state, \* local of rollout
    simulation_result,  \* local of monte_carlo_tree_search
    failed,         \* the exception that ended monte_carlo_tree_search
    best_action,    \* the action monte_carlo_tree_search returned
    heap,           \* the GameState objects with their boards and lists
    called,         \* receiver and argument of the last call of result
    raised          \* the exception of the last call of result

abVars == <<pc, game_state, depth, k, locals, via, branch, queue>>

mctsVars ==
    <<nodes, mpc, now, start_time, search_time, iterations, node_to_process,
      leaf_node, current_game_state, simulation_result, failed, best_action>>

heapVars == <<heap, called, raised>>

vars == <<state, player_id, abVars, mctsVars, heapVars>>

Init ==
    /\ state = NewGameState
    /\ player_id \in {0, 1}
    /\ pc = "idle"
    /\ game_state = NewGameState
    /\ depth = 0
    /\ k = 1
    /\ locals = RootLocals
    /\ via = "none"
    /\ branch = "none"
    /\ queue = <<>>
    /\ nodes = <<>>
    /\ mpc = "idle"
    /\ now = 0
    /\ start_time = 0
    /\ search_time = 0
    /\ iterations = 0
    /\ node_to_process = 0
    /\ leaf_node = 0
    /\ current_game_state = NewGameState
    /\ simulation_result = 0
    /\ failed = "none"
    /\ best_action = None
    /\ heap = NewHeap
    /\ called = [self |-> 0, action |-> None]
    /\ raised = "none"

Resting == pc \in {"idle", "done"}

\* the locals of a search are gone once another call is made
NoSearch ==
    /\ game_state' = NewGameState
    /\ depth' = 0
    /\ k' = 1
    /\ locals' = RootLocals
    /\ branch' = "none"

\* the caller plays a legal move of an unfinished game
Play ==
    /\ Resting
    /\ mpc = "idle"
    /\ ~terminal_test(state)
    /\ \E n \in 1..Len(actions(state)) :
          state' = result(state, actions(state)[n])
    /\ pc' = "idle"
    /\ via' = "none"
    /\ NoSearch
    /\ UNCHANGED <<player_id, queue>>
    /\ UNCHANGED <<mctsVars, heapVars>>

\* get_action, ply_count < 2: a random legal action is queued
GetActionOpening ==
    /\ Resting
    /\ player(state) = player_id
    /\ ply_count(state) < 2
    /\ Len(queue) < MaxQueue
    /\ \E n \in 1..Len(actions(state)) :
          queue' = Append(queue, actions(state)[n])
    /\ pc' = "done"
    /\ via' = "opening"
    /\ NoSearch
    /\ UNCHANGED <<state, player_id>>
    /\ UNCHANGED <<mctsVars, heapVars>>

\* get_action, ply_count >= 2: alpha_beta_search(state, _SEARCH_DEPTH) starts
GetActionSearch ==
    /\ Resting
    /\ player(state) = player_id
    /\ ply_count(state) >= 2
    /\ Len(queue) < MaxQueue
    /\ game_state' = state
    /\ depth' = SEARCH_DEPTH
    /\ k' = 1
    /\ locals' = RootLocals
    /\ via' = "get_action"
    /\ branch' = "none"
    /\ pc' = "root_loop"
    /\ UNCHANGED <<state, player_id, queue>>
    /\ UNCHANGED <<mctsVars, heapVars>>

\* alpha_beta_search called on its own with some depth
AlphaBetaSearchCall ==
    /\ Resting
    /\ player(state) = player_id
    /\ \E d \in 1..MaxDepth : depth' = d
    /\ game_state' = state
    /\ k' = 1
    /\ locals' = RootLocals
    /\ via' = "direct"
    /\ branch' = "none"
    /\ pc' = "root_loop"
    /\ UNCHANGED <<state, player_id, queue>>
    /\ UNCHANGED <<mctsVars, heapVars>>

\* one pass of the for loop at the root
RootStep ==
    /\ pc = "root_loop"
    /\ k <= Len(actions(game_state))
    /\ locals' = RootIteration(locals, game_state, actions(game_state)[k],
                               depth, player_id)
    /\ branch' = RootBranch(locals,
                            min_value(result(game_state,
                                             actions(game_state)[k]),
                                      locals.alpha, Infinity, depth - 1,
                                      player_id))
    /\ k' = k + 1
    /\ UNCHANGED <<state, player_id, pc, game_state, depth, via, queue>>
    /\ UNCHANGED <<mctsVars, heapVars>>

\* the loop is over: alpha_beta_search returns best_move, which get_action
\* puts on the queue
SearchReturn ==
    /\ pc = "root_loop"
    /\ k > Len(actions(game_state))
    /\ pc' = "done"
    /\ queue' = IF via = "get_action"
                THEN Append(queue, locals.best_move)
                ELSE queue
    /\ UNCHANGED <<state, player_id, game_state, depth, k, locals, via,
                   branch>>
    /\ UNCHANGED <<mctsVars, heapVars>>

Next ==
    \/ Play
    \/ GetActionOpening
    \/ GetActionSearch
    \/ AlphaBetaSearchCall
    \/ RootStep
    \/ SearchReturn

Spec == Init /\ [][Next]_vars

\* ------------------------------------------------------------------------
\* monte_carlo_tree_search, step by step
\* ------------------------------------------------------------------------
\* the clock advances; the search reads it in the while test only
Tick ==
    /\ mpc = "loop_test"
    /\ now < MaxTime
    /\ now' = now + 1
    /\ UNCHANGED <<heapVars, state, player_id, abVars, nodes, mpc, start_time,
                   search_time, iterations, node_to_process, leaf_node,
                   current_game_state, simulation_result, failed,
                   best_action>>

\* monte_carlo_tree_search(state, budget) up to the while loop:
\* math.ceil(budget * 0.5) is (budget + 1) \div 2
MctsCall ==
    /\ Resting
    /\ mpc = "idle"
    /\ nodes' = <<Node(state, None, 0)>>
    /\ start_time' = now
    /\ \E budget \in 0..MaxBudget :
          search_time' = (budget + SAFETY_DIVISOR - 1) \div SAFETY_DIVISOR
    /\ mpc' = "loop_test"
    /\ UNCHANGED <<heapVars, state, player_id, abVars, now, iterations,
                   node_to_process, leaf_node, current_game_state,
                   simulation_result, failed, best_action>>

\* the locals of traverse and rollout are gone between two passes
NoIteration ==
    /\ node_to_process' = 0
    /\ leaf_node' = 0
    /\ current_game_state' = NewGameState
    /\ simulation_result' = 0

\* the while test holds: traverse(root_node) starts
LoopEnter ==
    /\ mpc = "loop_test"
    /\ now - start_time <= search_time
    /\ iterations < MaxIterations
    /\ node_to_process' = 1
    /\ mpc' = "traverse"
    /\ UNCHANGED <<heapVars, state, player_id, abVars, nodes, now, start_time,
                   search_time, iterations, leaf_node, current_game_state,
                   simulation_result, failed, best_action>>

\* the while test fails: the loop is left
LoopExit ==
    /\ mpc = "loop_test"
    /\ now - start_time > search_time
    /\ mpc' = "final"
    /\ UNCHANGED <<heapVars, state, player_id, abVars, nodes, now, start_time,
                   search_time, iterations, node_to_process, leaf_node,
                   current_game_state, simulation_result, failed,
                   best_action>>

\* traverse reaches a terminal node and returns it; its rollout starts
TraverseTerminal ==
    /\ mpc = "traverse"
    /\ ~non_terminal(nodes[node_to_process].gameState)
    /\ leaf_node' = node_to_process
    /\ current_game_state' = nodes[node_to_process].gameState
    /\ mpc' = "rollout"
    /\ UNCHANGED <<heapVars, state, player_id, abVars, nodes, now, start_time,
                   search_time, iterations, node_to_process,
                   simulation_result, failed, best_action>>

\* traverse expands a node with an untried action and returns the child;
\* its rollout starts
TraverseExpand ==
    /\ mpc = "traverse"
    /\ non_terminal(nodes[node_to_process].gameState)
    /\ ~is_fully_expanded(nodes[node_to_process])
    /\ \E m \in 1..Len(nodes[node_to_process].openActions) :
          nodes' = expand(nodes, node_to_process, m)
    /\ leaf_node' = Len(nodes) + 1
    /\ current_game_state' = nodes'[Len(nodes) + 1].gameState
    /\ mpc' = "rollout"
    /\ UNCHANGED <<heapVars, state, player_id, abVars, now, start_time, search_time,
                   iterations, node_to_process, simulation_result, failed,
                   best_action>>

\* traverse descends from a fully expanded node to its best_child
TraverseDescend ==
    /\ mpc = "traverse"
    /\ non_terminal(nodes[node_to_process].gameState)
    /\ is_fully_expanded(nodes[node_to_process])
    /\ IF BestChildError(nodes, node_to_process) # "none"
       THEN /\ failed' = BestChildError(nodes, node_to_process)
            /\ mpc' = "failed"
            /\ UNCHANGED node_to_process
       ELSE \E c \in BestChildren(nodes, node_to_process) :
              IF c = 0
              THEN /\ failed' = "AttributeError"
                   /\ mpc' = "failed"
                   /\ UNCHANGED node_to_process
              ELSE /\ node_to_process' = c
                   /\ UNCHANGED <<failed, mpc>>
    /\ UNCHANGED <<heapVars, state, player_id, abVars, nodes, now, start_time,
                   search_time, iterations, leaf_node, current_game_state,
                   simulation_result, best_action>>

\* one pass of the while loop of rollout: a random legal action is applied
RolloutStep ==
    /\ mpc = "rollout"
    /\ non_terminal(current_game_state)
    /\ IF actions(current_game_state) = <<>>
       THEN /\ failed' = "IndexError"
            /\ mpc' = "failed"
            /\ UNCHANGED current_game_state
       ELSE /\ \E m \in 1..Len(actions(current_game_state)) :
                  current_game_state' =
                      result(current_game_state,
                             actions(current_game_state)[m])
            /\ UNCHANGED <<failed, mpc>>
    /\ UNCHANGED <<heapVars, state, player_id, abVars, nodes, now, start_time,
                   search_time, iterations, node_to_process, leaf_node,
                   simulation_result, best_action>>

\* the playout is over: rollout returns self.result(current_game_state)
RolloutReturn ==
    /\ mpc = "rollout"
    /\ ~non_terminal(current_game_state)
    /\ simulation_result' = NodeResult(current_game_state)
    /\ mpc' = "backpropagate"
    /\ UNCHANGED <<heapVars, state, player_id, abVars, nodes, now, start_time,
                   search_time, iterations, node_to_process, leaf_node,
                   current_game_state, failed, best_action>>

\* leaf_node.backpropagate(simulation_result); the pass of the loop is over
Backpropagate ==
    /\ mpc = "backpropagate"
    /\ nodes' = backpropagate(nodes, leaf_node, simulation_result)
    /\ iterations' = iterations + 1
    /\ mpc' = "loop_test"
    /\ NoIteration
    /\ UNCHANGED <<heapVars, state, player_id, abVars, now, start_time, search_time,
                   failed, best_action>>

\* after the loop: root_node.best_child() has a child, its action is returned
MctsReturn ==
    /\ mpc = "final"
    /\ BestChildError(nodes, 1) = "none"
    /\ \E c \in BestChildren(nodes, 1) :
          /\ c # 0
          /\ best_action' = nodes[c].action
    /\ mpc' = "returned"
    /\ UNCHANGED <<heapVars, state, player_id, abVars, nodes, now, start_time,
                   search_time, iterations, node_to_process, leaf_node,
                   current_game_state, simulation_result, failed>>

\* after the loop: best_child raises, or returns None and None.action raises
MctsRaise ==
    /\ mpc = "final"
    /\ \/ BestChildError(nodes, 1) # "none"
       \/ 0 \in BestChildren(nodes, 1)
    /\ failed' = IF BestChildError(nodes, 1) # "none"
                 THEN BestChildError(nodes, 1)
                 ELSE "AttributeError"
    /\ mpc' = "failed"
    /\ UNCHANGED <<heapVars, state, player_id, abVars, nodes, now, start_time,
                   search_time, iterations, node_to_process, leaf_node,
                   current_game_state, simulation_result, best_action>>

NextMCTS ==
    \/ Play
    \/ Tick
    \/ MctsCall
    \/ LoopEnter
    \/ LoopExit
    \/ TraverseTerminal
    \/ TraverseExpand
    \/ TraverseDescend
    \/ RolloutStep
    \/ RolloutReturn
    \/ Backpropagate
    \/ MctsReturn
    \/ MctsRaise

\* the searches do not depend on each other: the tree search is followed
\* for one agent
InitMCTS == Init /\ player_id = 0

SpecMCTS == InitMCTS /\ [][NextMCTS]_vars

\* the while loop of rollout keeps running: a started playout is not
\* abandoned between two moves or before its return
SpecMCTSFair ==
    SpecMCTS /\ WF_vars(RolloutStep) /\ WF_vars(RolloutReturn)

\* ------------------------------------------------------------------------
\* result called on GameState objects
\* ------------------------------------------------------------------------
\* self.result(action) on any object made so far, with any cell as action
CallResult ==
    /\ \E i \in 1..Len(heap.objs) : \E n \in 1..Len(AllCells) :
          /\ called' = [self |-> i, action |-> AllCells[n]]
          /\ IF ~InSeq(AllCells[n], actions(StateAt(heap, i)))
             THEN /\ raised' = IllegalAction
                  /\ heap' = heap
             ELSE /\ Len(heap.objs) < MaxHeap
                  /\ raised' = "none"
                  /\ heap' = ResultOnHeap(heap, i, AllCells[n])
    /\ UNCHANGED <<state, player_id, abVars, mctsVars>>

NextHeap == CallResult

InitHeap == Init /\ player_id = 0

SpecHeap == InitHeap /\ [][NextHeap]_vars

\* C10: a call of result leaves every object made so far as it was; with
\* an action that is not in actions() it raises and makes no object, with
\* a legal action it makes one new object, whose value is the receiver's
\* with the action applied and which shares no board and no list with
\* another object.
C10_ResultLeavesReceiver ==
    [][/\ \A i \in 1..Len(heap.objs) : StateAt(heap', i) = StateAt(heap, i)
       /\ IF InSeq(called'.action, actions(StateAt(heap, called'.self)))
          THEN /\ raised' = "none"
               /\ Len(heap'.objs) = Len(heap.objs) + 1
               /\ StateAt(heap', Len(heap'.objs))
                     = result(StateAt(heap, called'.self), called'.action)
               /\ \A i \in 1..Len(heap.objs) :
                     /\ heap'.objs[i].board
                           # heap'.objs[Len(heap'.objs)].board
                     /\ heap'.objs[i].player_locations
                           # heap'.objs[Len(heap'.objs)].player_locations
          ELSE /\ raised' = IllegalAction
               /\ Len(heap'.objs) = Len(heap.objs)]_heapVars

\* an illegal call has raised on an object that an earlier legal call
\* returned and from which a later legal call made another object
C10_Witness ==
    /\ raised = IllegalAction
    /\ Len(heap.objs) >= 3
    /\ called.self = 2
    /\ \E n \in 1..Len(AllCells) :
          /\ InSeq(AllCells[n], actions(StateAt(heap, 2)))
          /\ StateAt(heap, 3) = result(StateAt(heap, 2), AllCells[n])

\* ------------------------------------------------------------------------
\* Plain minimax to a fixed depth, no pruning (the reference of C1, C3, C9)
\* ------------------------------------------------------------------------
RECURSIVE PlainMin(_, _, _)
RECURSIVE PlainMax(_, _, _)
RECURSIVE PlainMinFrom(_, _, _, _, _)
RECURSIVE PlainMaxFrom(_, _, _, _, _)

\* the minimum of v and the values of the actions of s from the j-th on
PlainMinFrom(s, j, v, d, pid) ==
    IF j > Len(actions(s)) THEN v
    ELSE PlainMinFrom(s, j + 1,
                      Min(v, PlainMax(result(s, actions(s)[j]), d - 1, pid)),
                      d, pid)

PlainMin(s, d, pid) ==
    IF terminal_test(s) THEN utility(s, pid)
    ELSE IF d <= 0 THEN score(s, pid)
    ELSE PlainMinFrom(s, 1, Infinity, d, pid)

\* the maximum of v and the values of the actions of s from the j-th on
PlainMaxFrom(s, j, v, d, pid) ==
    IF j > Len(actions(s)) THEN v
    ELSE PlainMaxFrom(s, j + 1,
                      Max(v, PlainMin(result(s, actions(s)[j]), d - 1, pid)),
                      d, pid)

PlainMax(s, d, pid) ==
    IF terminal_test(s) THEN utility(s, pid)
    ELSE IF d <= 0 THEN score(s, pid)
    ELSE PlainMaxFrom(s, 1, -Infinity, d, pid)

\* the unpruned value of the n-th root action
RootValue(s, n, d, pid) == PlainMin(result(s, actions(s)[n]), d - 1, pid)

\* the unpruned values of the root actions from the n-th on, in order
RECURSIVE RootValuesFrom(_, _, _, _)
RootValuesFrom(s, n, d, pid) ==
    IF n > Len(actions(s)) THEN <<>>
    ELSE <<RootValue(s, n, d, pid)>> \o RootValuesFrom(s, n + 1, d, pid)

RootValues(s, d, pid) == RootValuesFrom(s, 1, d, pid)

\* the largest element of a non-empty sequence of numbers
SeqMax(sq) ==
    CHOOSE m \in {sq[j] : j \in 1..Len(sq)} : \A j \in 1..Len(sq) : m >= sq[j]

\* the index of the first largest element
FirstMaxIndex(sq) ==
    CHOOSE n \in 1..Len(sq) :
        /\ sq[n] = SeqMax(sq)
        /\ \A m \in 1..(n - 1) : sq[m] # SeqMax(sq)

\* the value min_value returned for the n-th root action in the search
SearchedValue(s, n, d, pid) ==
    min_value(result(s, actions(s)[n]),
              RootLoop(RootLocals, s, 1, n - 1, d, pid).alpha,
              Infinity, d - 1, pid)

SearchDone == pc = "done" /\ via \in {"get_action", "direct"}

\* C1: when alpha_beta_search has returned from a non-terminal root, its
\* best_score is the root value of plain minimax to the same depth.
C1_AlphaBetaEqualsMinimax ==
    (SearchDone /\ ~terminal_test(game_state))
        => locals.best_score = PlainMax(game_state, depth, player_id)

\* a finished search in which min_value returned a bound for some root
\* action, not its exact value
C1_Witness ==
    /\ SearchDone
    /\ ~terminal_test(game_state)
    /\ \E n \in 1..Len(actions(game_state)) :
          SearchedValue(game_state, n, depth, player_id)
              # RootValue(game_state, n, depth, player_id)

\* C2: while get_action searches, every change of best_move is put on the
\* queue at once.
C2_QueuedOnEveryImprovement ==
    [][(pc = "root_loop" /\ via = "get_action"
        /\ locals'.best_move # locals.best_move)
          => queue' = Append(queue, locals'.best_move)]_vars

\* the maximum of the unpruned values of the root actions
BestRootValue(s, d, pid) == SeqMax(RootValues(s, d, pid))

\* the first root action, in actions() order, of maximal unpruned value
FirstBestAction(s, d, pid) == actions(s)[FirstMaxIndex(RootValues(s, d, pid))]

\* C3: alpha_beta_search on a root with a legal action returns the first
\* action, in actions() order, whose unpruned minimax value is maximal.
C3_FirstBestActionReturned ==
    (SearchDone /\ actions(game_state) # <<>>)
        => locals.best_move = FirstBestAction(game_state, depth, player_id)

\* a finished search with two root actions of maximal value, for the later
\* of which min_value returned a bound that is not its value
C3_Witness ==
    /\ SearchDone
    /\ LET vals == RootValues(game_state, depth, player_id)
       IN \E m, n \in 1..Len(vals) :
             /\ m < n
             /\ vals[m] = SeqMax(vals)
             /\ vals[n] = SeqMax(vals)
    /\ \E n \in 1..Len(actions(game_state)) :
          SearchedValue(game_state, n, depth, player_id)
              # RootValue(game_state, n, depth, player_id)

\* a finished search all of whose root actions have value minus infinity
C3_WitnessAllLost ==
    /\ SearchDone
    /\ Len(actions(game_state)) >= 2
    /\ BestRootValue(game_state, depth, player_id) = -Infinity

\* the state after action a is terminal and a win for the searcher
ImmediateWin(s, a, pid) ==
    /\ terminal_test(result(s, a))
    /\ utility(result(s, a), pid) = Infinity

HasImmediateWin(s, pid) ==
    \E n \in 1..Len(actions(s)) : ImmediateWin(s, actions(s)[n], pid)

FirstImmediateWin(s, pid) ==
    CHOOSE n \in 1..Len(actions(s)) :
        /\ ImmediateWin(s, actions(s)[n], pid)
        /\ \A m \in 1..(n - 1) : ~ImmediateWin(s, actions(s)[m], pid)

\* C9 as stated: with an immediately winning action at the root, the
\* depth-5 search returns an immediately winning action.
C9_ImmediateWinReturned ==
    (SearchDone /\ depth = SEARCH_DEPTH
     /\ HasImmediateWin(game_state, player_id))
        => ImmediateWin(game_state, locals.best_move, player_id)

\* C9 amended: with an immediately winning action at the root, the depth-5
\* search returns the first action of value plus infinity; it wins
\* immediately when no earlier action than the first immediately winning
\* one has value plus infinity.
C9_ForcedWinReturned ==
    (SearchDone /\ depth = SEARCH_DEPTH
     /\ HasImmediateWin(game_state, player_id))
        => LET vals == RootValues(game_state, depth, player_id)
           IN /\ locals.best_score = Infinity
              /\ SeqMax(vals) = Infinity
              /\ locals.best_move = actions(game_state)[FirstMaxIndex(vals)]
              /\ (\A m \in 1..(FirstImmediateWin(game_state, player_id) - 1) :
                     vals[m] # Infinity)
                    => ImmediateWin(game_state, locals.best_move, player_id)

\* a finished depth-5 search from a root with an immediately winning action
\* that is not the first action, and which is returned
C9_Witness ==
    /\ SearchDone
    /\ depth = SEARCH_DEPTH
    /\ HasImmediateWin(game_state, player_id)
    /\ FirstImmediateWin(game_state, player_id) > 1
    /\ ImmediateWin(game_state, locals.best_move, player_id)

\* ------------------------------------------------------------------------
\* Claims about the tree search
\* ------------------------------------------------------------------------
\* C4: every non-root node has at most the visits of its parent, and the
\* root has as many visits as passes of the loop have been completed.
C4_VisitCounts ==
    nodes # <<>>
        => /\ \A n \in 2..Len(nodes) :
                 nodes[n].numberOfVisits
                    <= nodes[nodes[n].parentNode].numberOfVisits
           /\ nodes[1].numberOfVisits = iterations

\* three passes completed, the last of them through a node below the root
C4_Witness ==
    /\ mpc = "loop_test"
    /\ iterations = 3
    /\ \E n \in 2..Len(nodes) :
          /\ nodes[n].parentNode # 1
          /\ nodes[n].numberOfVisits = 1
          /\ nodes[nodes[n].parentNode].numberOfVisits = 2

\* C5 as stated: a search on a non-terminal root leaves the loop after at
\* least one pass and does not fail.
C5_AtLeastOneIteration ==
    (nodes # <<>> /\ non_terminal(nodes[1].gameState))
        => /\ mpc \in {"final", "returned", "failed"} => iterations >= 1
           /\ mpc # "failed"

\* C6 as stated: rollout returns +1 exactly when the final state of the
\* playout is won by the player to move in the leaf, -1 exactly when it is
\* lost by that player.
C6_RolloutFromLeafMover ==
    mpc = "backpropagate"
        => /\ simulation_result = 1
                <=> utility(current_game_state,
                            player(nodes[leaf_node].gameState)) = Infinity
           /\ simulation_result = -1
                <=> utility(current_game_state,
                            player(nodes[leaf_node].gameState)) = -Infinity

\* the node whose children best_child is about to score, 0 if none is
ScoredNode ==
    IF mpc = "traverse"
       /\ non_terminal(nodes[node_to_process].gameState)
       /\ is_fully_expanded(nodes[node_to_process])
    THEN node_to_process
    ELSE IF mpc = "final" THEN 1
    ELSE 0

\* C7: when best_child scores the children of a node, each child has at
\* least one visit and so has the node; best_child never divides by zero
\* and never takes the logarithm of zero.
C7_NoZeroVisitsInUct ==
    /\ failed \notin {"ZeroDivisionError", "ValueError"}
    /\ (ScoredNode # 0 /\ nodes[ScoredNode].childNodes # <<>>)
          => /\ nodes[ScoredNode].numberOfVisits >= 1
             /\ \A j \in 1..Len(nodes[ScoredNode].childNodes) :
                   nodes[nodes[ScoredNode].childNodes[j]].numberOfVisits >= 1

\* traverse is about to score the children of a fully expanded node with
\* two children or more
C7_Witness ==
    /\ mpc = "traverse"
    /\ ScoredNode # 0
    /\ Len(nodes[ScoredNode].childNodes) >= 2

\* C8: the qValue of every node lies between minus and plus its visits.
C8_QValueBounded ==
    \A n \in 1..Len(nodes) :
        /\ -nodes[n].numberOfVisits <= nodes[n].qValue
        /\ nodes[n].qValue <= nodes[n].numberOfVisits

\* both ends of the interval are attained: a node with two visits or more
\* and qValue = -numberOfVisits, and one with qValue = numberOfVisits
C8_Witness ==
    /\ \E n \in 1..Len(nodes) :
          /\ nodes[n].numberOfVisits >= 2
          /\ nodes[n].qValue = -nodes[n].numberOfVisits
    /\ \E n \in 1..Len(nodes) :
          /\ nodes[n].numberOfVisits >= 2
          /\ nodes[n].qValue = nodes[n].numberOfVisits

\* ------------------------------------------------------------------------
\* Claims about get_action on terminal states and the branches of the root
\* loop
\* ------------------------------------------------------------------------
\* C11: the search that get_action runs never has a terminal root, and
\* None is never put on the queue.
C11_NoSearchOnTerminalRoot ==
    /\ (via = "get_action" /\ pc \in {"root_loop", "done"})
          => ~terminal_test(game_state)
    /\ \A n \in 1..Len(queue) : queue[n] # None

\* C12 as stated: no pass of the root loop executes the elif branch.
C12_ElifNeverExecuted == branch # "elif"

\* C12 amended: the elif branch is executed in the first pass of the root
\* loop exactly when the value of the first action is minus infinity, and
\* in no later pass; the first pass executes the if branch otherwise.
C12_ElifOnLostFirstAction ==
    (pc \in {"root_loop", "done"} /\ k >= 2)
        => /\ branch = "elif"
                <=> (k = 2 /\ RootValue(game_state, 1, depth, player_id)
                                 = -Infinity)
           /\ (k = 2 /\ RootValue(game_state, 1, depth, player_id)
                           # -Infinity)
                 => branch = "if"

\* the first pass has executed the elif branch at a root with two actions
\* or more
C12_Witness ==
    /\ pc = "root_loop"
    /\ k = 2
    /\ branch = "elif"
    /\ Len(actions(game_state)) >= 2

\* ------------------------------------------------------------------------
\* Claims about backpropagate, expand and rollout
\* ------------------------------------------------------------------------
\* the number of levels node n lies above node from, -1 when n is not on
\* the path from that node to the root
RECURSIVE LevelsAbove(_, _, _)
LevelsAbove(tree, from, n) ==
    IF from = n THEN 0
    ELSE IF tree[from].parentNode = 0 THEN -1
    ELSE LET up == LevelsAbove(tree, tree[from].parentNode, n)
         IN IF up < 0 THEN -1 ELSE up + 1

\* C13: backpropagate(result) on a leaf adds one visit to the leaf and to
\* each of its ancestors up to the root, adds result * (-1)^j to the
\* qValue of the ancestor j levels above the leaf, and changes nothing
\* else in the tree.
C13_BackpropagateFrame ==
    [][mpc = "backpropagate"
        => /\ Len(nodes') = Len(nodes)
           /\ LevelsAbove(nodes, leaf_node, 1) >= 0
           /\ \A n \in 1..Len(nodes) :
                 LET j == LevelsAbove(nodes, leaf_node, n)
                 IN IF j >= 0
                    THEN nodes'[n] =
                           [nodes[n] EXCEPT
                              !.numberOfVisits = @ + 1,
                              !.qValue = @ + simulation_result
                                             * (IF j % 2 = 0 THEN 1 ELSE -1)]
                    ELSE nodes'[n] = nodes[n]]_vars

\* backpropagate is about to run on a leaf two levels below the root with
\* a result that is not 0, in a tree with a node off the path
C13_Witness ==
    /\ mpc = "backpropagate"
    /\ simulation_result # 0
    /\ LevelsAbove(nodes, leaf_node, 1) = 2
    /\ \E n \in 1..Len(nodes) : LevelsAbove(nodes, leaf_node, n) < 0

\* the elements of a list
Elements(sq) == {sq[j] : j \in 1..Len(sq)}

\* the actions carried by the children of node n
ChildActions(tree, n) == {tree[c].action : c \in Elements(tree[n].childNodes)}

\* node n of the tree splits the legal actions of its state between its
\* children and its openActions, and each child is the result of its action
ActionsPartitioned(tree, n) ==
    LET node == tree[n]
    IN /\ Elements(node.openActions) \cap ChildActions(tree, n) = {}
       /\ Elements(node.openActions) \cup ChildActions(tree, n)
             = Elements(actions(node.gameState))
       /\ Cardinality(Elements(node.openActions)) = Len(node.openActions)
       /\ \A i, j \in 1..Len(node.childNodes) :
             i # j => tree[node.childNodes[i]].action
                         # tree[node.childNodes[j]].action
       /\ \A c \in Elements(node.childNodes) :
             /\ c \in 1..Len(tree)
             /\ tree[c].parentNode = n
             /\ tree[c].gameState = result(node.gameState, tree[c].action)

\* the step is one expand of node n: one action leaves openActions and one
\* child carrying it is added
ExpandedOnce(n) ==
    LET new == Len(nodes) + 1
    IN /\ Len(nodes') = new
       /\ Len(nodes'[n].openActions) = Len(nodes[n].openActions) - 1
       /\ Elements(nodes[n].openActions) \ Elements(nodes'[n].openActions)
             = {nodes'[new].action}
       /\ nodes'[n].childNodes = Append(nodes[n].childNodes, new)
       /\ nodes'[new].parentNode = n
       /\ nodes'[new].gameState
             = result(nodes[n].gameState, nodes'[new].action)
       /\ \A o \in 1..Len(nodes) :
             o # n => nodes'[o] = nodes[o]

\* C14: in every tree the search builds, the actions of a node's children
\* and its openActions are disjoint and together exactly the legal actions
\* of the node's state, no two children carry the same action, each expand
\* removes exactly one action from openActions and adds exactly one child
\* whose state is the result of that action and whose parent is the node,
\* and a fully expanded node never regains an untried action.
C14_ExpandPartitionsActions ==
    /\ [](\A n \in 1..Len(nodes) : ActionsPartitioned(nodes, n))
    /\ [][/\ (/\ mpc = "traverse"
              /\ non_terminal(nodes[node_to_process].gameState)
              /\ ~is_fully_expanded(nodes[node_to_process]))
                => ExpandedOnce(node_to_process)
          /\ \A n \in 1..Len(nodes) :
                is_fully_expanded(nodes[n])
                   => /\ n <= Len(nodes')
                      /\ is_fully_expanded(nodes'[n])]_vars

\* a rollout starts from a child just added by expand, in a tree with a
\* fully expanded node of two or more children and a node that has both
\* a child and an untried action
C14_Witness ==
    /\ mpc = "rollout"
    /\ leaf_node = Len(nodes)
    /\ \E n \in 1..Len(nodes) :
          /\ is_fully_expanded(nodes[n])
          /\ Len(nodes[n].childNodes) >= 2
    /\ \E n \in 1..Len(nodes) :
          /\ ~is_fully_expanded(nodes[n])
          /\ Len(nodes[n].childNodes) >= 1

\* the cells of the board that are not blocked
OpenCells(s) ==
    {c \in Elements(AllCells) : s.board[c[1]][c[2]] = 0}

\* C15: every rollout terminates: each non-terminal state of the playout
\* gives the active player at least one legal action, so rollout_policy
\* never chooses from an empty list; each move blocks one more cell; and a
\* terminal state is reached after at most as many moves as the board of
\* the leaf has open cells.
C15_RolloutTerminates ==
    /\ [](/\ failed # "IndexError"
          /\ mpc = "rollout"
                => /\ non_terminal(current_game_state)
                        => actions(current_game_state) # <<>>
                   /\ OpenCells(current_game_state) = {}
                        => terminal_test(current_game_state)
                   /\ OpenCells(current_game_state)
                        \subseteq OpenCells(nodes[leaf_node].gameState))
    /\ [][(mpc = "rollout" /\ non_terminal(current_game_state))
             => /\ mpc' = "rollout"
                /\ OpenCells(current_game_state')
                      \subseteq OpenCells(current_game_state)
                /\ Cardinality(OpenCells(current_game_state'))
                      = Cardinality(OpenCells(current_game_state)) - 1]_vars
    /\ (mpc = "rollout") ~> (mpc = "backpropagate")

\* a playout that made two or more moves has reached a terminal state
C15_Witness ==
    /\ mpc = "rollout"
    /\ terminal_test(current_game_state)
    /\ Cardinality(OpenCells(nodes[leaf_node].gameState))
          >= Cardinality(OpenCells(current_game_state)) + 2

====
